---- MODULE Spec2Model ----
(***************************************************************************)
(* Model of the contact-submission flow of pinhead-analytics:              *)
(*   - POST /api/contact            (src/pages/api/contact.ts)             *)
(*   - the ContactForm component    (src/components/react/ContactForm.tsx) *)
(* and of the blog collection schema and the HeroCarousel component.       *)
(* Strings are sequences of one-character strings, so that the regular     *)
(* expression and the JavaScript conversions are computed character by     *)
(* character.                                                              *)
(***************************************************************************)
EXTENDS Integers, Sequences, FiniteSets

VARIABLES
    request,        \* body of the request the endpoint is handling
    phase,          \* "idle" | "handling" | "answered"
    response,       \* the Response returned for `request`
    responsesSent,  \* number of responses returned for `request`
    threw,          \* TRUE iff handling `request` raised an exception
    console,        \* console lines written while handling `request`
    history,        \* <<request, response>> pairs of the requests answered so far
    formData,       \* ContactForm: the email and message fields
    isSubmitting,   \* ContactForm: a submission is in progress
    isSubmitted,    \* ContactForm: the thank-you view is shown
    error,          \* ContactForm: the inline error text, "" for none
    inflight,       \* ContactForm: bodies of the fetches not yet settled
    requestsSent,   \* ContactForm: number of fetches issued
    lastEvent,      \* ContactForm: the last event handled
    submitEvents,   \* ContactForm: number of submit events handled
    lastSubmission, \* ContactForm: the fields at the last submit event
    outbound,       \* requests the endpoint made to other services
    envRead,        \* environment variables the endpoint read
    handlers,       \* concurrent invocations of the handler, by slot
    trace,          \* concurrent invocations: the steps taken, in order
    frontmatter,    \* blog collection: the front-matter block of an entry
    blogResult,     \* blog collection: "pending" | "accepted" | "rejected"
    currentIndex,   \* HeroCarousel: index of the slide shown
    isPlaying,      \* HeroCarousel: auto-play is on
    interval,       \* HeroCarousel: seconds to the next tick of the advance timer, NoTimer if none
    timeouts,       \* HeroCarousel: seconds left of each pending resume timeout, oldest first
    clicked,        \* HeroCarousel: index of the dot clicked last, NoClick if none
    sinceClick,     \* HeroCarousel: seconds since the last dot click, up to ResumeDelay
    carouselEvent   \* HeroCarousel: the last event handled

endpointVars ==
    <<request, phase, response, responsesSent, threw, console, history,
      outbound, envRead>>

formVars ==
    <<formData, isSubmitting, isSubmitted, error, inflight, requestsSent,
      lastEvent, submitEvents, lastSubmission>>

concurrentVars == <<handlers, trace>>

blogVars == <<frontmatter, blogResult>>

carouselVars ==
    <<currentIndex, isPlaying, interval, timeouts, clicked, sinceClick,
      carouselEvent>>

vars == <<endpointVars, formVars, concurrentVars, blogVars, carouselVars>>

----------------------------------------------------------------------------
(* Bounds *)

MaxLen == 5         \* longest email string enumerated
MaxItems == 2       \* longest array enumerated as an email value
MaxHistory == 3     \* requests handled in a run of the repeat specification
MaxSubmits == 3     \* submissions made in a run of the form

----------------------------------------------------------------------------
(* Strings *)

Alphabet == {"a", "@", ".", " "}

Strings(n) == UNION {[1..k -> Alphabet] : k \in 0..n}

Lit_a_at_b_dot_c == <<"a", "@", "a", ".", "a">>

NoMessageProvided ==
    <<"N","o"," ","m","e","s","s","a","g","e"," ","p","r","o","v","i","d","e","d">>

ObjectObject == <<"[","o","b","j","e","c","t"," ","O","b","j","e","c","t","]">>

----------------------------------------------------------------------------
(* JavaScript values, as JSON.parse produces them.  One record shape for   *)
(* every type; the fields a type does not use hold a default.              *)

JsVal(t, s, n, b, it, ks) ==
    [type |-> t, str |-> s, num |-> n, bool |-> b, items |-> it, keys |-> ks]

Undefined   == JsVal("undefined", <<>>, 0, FALSE, <<>>, {})
Null        == JsVal("null", <<>>, 0, FALSE, <<>>, {})
JsString(s) == JsVal("string", s, 0, FALSE, <<>>, {})
JsNumber(n) == JsVal("number", <<>>, n, FALSE, <<>>, {})
JsBool(b)   == JsVal("boolean", <<>>, 0, b, <<>>, {})
JsArray(it) == JsVal("array", <<>>, 0, FALSE, it, {})
JsObject(ks) == JsVal("object", <<>>, 0, FALSE, <<>>, ks)

----------------------------------------------------------------------------
(* JavaScript conversions used by the handler *)

\* ToBoolean, as applied by `!data.email` and `data.message || ...`
ToBoolean(v) ==
    CASE v.type = "undefined" -> FALSE
      [] v.type = "null"      -> FALSE
      [] v.type = "boolean"   -> v.bool
      [] v.type = "number"    -> v.num # 0
      [] v.type = "string"    -> Len(v.str) > 0
      [] v.type = "array"     -> TRUE
      [] v.type = "object"    -> TRUE

Digits == <<"0", "1", "2", "3", "4", "5", "6", "7", "8", "9">>

RECURSIVE NumberToString(_)
NumberToString(n) ==
    IF n < 0 THEN <<"-">> \o NumberToString(0 - n)
    ELSE IF n < 10 THEN <<Digits[n + 1]>>
    ELSE NumberToString(n \div 10) \o <<Digits[(n % 10) + 1]>>

\* Array.prototype.join(","), which Array.prototype.toString calls
RECURSIVE Join(_, _)
Join(items, i) ==
    IF i > Len(items) THEN <<>>
    ELSE IF i = Len(items) THEN items[i]
    ELSE items[i] \o <<",">> \o Join(items, i + 1)

\* ToString raises a TypeError for an object whose own "toString" property
\* (a JSON value, so never callable) shadows Object.prototype.toString:
\* Object.prototype.valueOf then returns the object itself, not a primitive.
ToStringThrows(v) == v.type = "object" /\ "toString" \in v.keys

\* ToString, as RegExp.prototype.test applies it to its argument
ToString(v) ==
    CASE v.type = "undefined" -> <<"u","n","d","e","f","i","n","e","d">>
      [] v.type = "null"      -> <<"n","u","l","l">>
      [] v.type = "boolean"   -> IF v.bool THEN <<"t","r","u","e">>
                                           ELSE <<"f","a","l","s","e">>
      [] v.type = "number"    -> NumberToString(v.num)
      [] v.type = "string"    -> v.str
      [] v.type = "array"     -> Join(v.items, 1)
      [] v.type = "object"    -> ObjectObject

----------------------------------------------------------------------------
(* Regular expressions: a sequence of pieces, each a character class that   *)
(* is matched once or (plus) one or more times; the whole input must match *)
(* (the pattern is anchored by ^ and $, without the m flag).               *)

IsSpace(c) == c \in {" ", "\t", "\n"}

\* [^\s@] also excluding "."
ClassHasNoDot(cls, c) ==
    CASE cls = "notSpaceAt" -> ~IsSpace(c) /\ c \notin {"@", "."}
      [] cls = "at"         -> c = "@"
      [] cls = "dot"        -> c = "."

ClassHas(cls, c) ==
    CASE cls = "notSpaceAt" -> ~IsSpace(c) /\ c # "@"     \* [^\s@]
      [] cls = "at"         -> c = "@"
      [] cls = "dot"        -> c = "."                     \* \.

\* NFA states are <<piece, started>>: about to match `piece`, or inside a
\* started `+` piece.
Closure(S) == S \cup {<<q[1] + 1, FALSE>> : q \in {r \in S : r[2]}}

StepState(re, q, c) ==
    IF q[1] > Len(re) THEN {}
    ELSE IF ~ClassHas(re[q[1]].cls, c) THEN {}
    ELSE IF re[q[1]].plus THEN {<<q[1], TRUE>>}
    ELSE {<<q[1] + 1, FALSE>>}

Step(re, S, c) == Closure(UNION {StepState(re, q, c) : q \in S})

RECURSIVE Run(_, _, _, _)
Run(re, S, s, i) ==
    IF i > Len(s) THEN S ELSE Run(re, Step(re, S, s[i]), s, i + 1)

RegexTest(re, s) == <<Len(re) + 1, FALSE>> \in Run(re, {<<1, FALSE>>}, s, 1)

\* /^[^\s@]+@[^\s@]+$/, the pattern without its "." tld part
emailRegexNoTld ==
    << [cls |-> "notSpaceAt", plus |-> TRUE],
       [cls |-> "at",         plus |-> FALSE],
       [cls |-> "notSpaceAt", plus |-> TRUE] >>

\* /^[^\s@]+@[^\s@]+\.[^\s@]+$/
emailRegex ==
    << [cls |-> "notSpaceAt", plus |-> TRUE],
       [cls |-> "at",         plus |-> FALSE],
       [cls |-> "notSpaceAt", plus |-> TRUE],
       [cls |-> "dot",        plus |-> FALSE],
       [cls |-> "notSpaceAt", plus |-> TRUE] >>

emailRegexTest(v) == RegexTest(emailRegex, ToString(v))

----------------------------------------------------------------------------
(* Request bodies.  `kind` is what request.json() makes of the body:       *)
(* "invalid" (no JSON text), or the type of the parsed top-level value.    *)
(* `email` and `message` are the properties of a top-level object          *)
(* (Undefined when absent); `extra` says whether it has other properties.  *)

Body(k, e, m, x) == [kind |-> k, email |-> e, message |-> m, extra |-> x]

NoRequest == Body("none", Undefined, Undefined, FALSE)

ArrayItems == {<<>>, <<"a">>, Lit_a_at_b_dot_c}

Arrays(n) == UNION {[1..k -> ArrayItems] : k \in 0..n}

EmailValues ==
    {Undefined, Null, JsBool(TRUE), JsBool(FALSE), JsNumber(0), JsNumber(5)}
    \cup {JsString(s) : s \in Strings(MaxLen)}
    \cup {JsArray(it) : it \in Arrays(MaxItems)}
    \cup {JsObject({}), JsObject({"valueOf"}), JsObject({"toString"})}

MessageValues ==
    {Undefined, Null, JsNumber(0), JsString(<<>>), JsString(<<"a">>),
     JsString(<<"a", " ", "@", ".">>), JsArray(<<>>)}

Bodies ==
    {Body(k, Undefined, Undefined, FALSE) :
        k \in {"invalid", "null", "number", "string", "boolean", "array"}}
    \cup {Body("object", e, m, x) :
            e \in EmailValues, m \in MessageValues, x \in BOOLEAN}

----------------------------------------------------------------------------
(* POST /api/contact *)

\* `await request.json()` rejects
JsonRejects(body) == body.kind = "invalid"

\* Reading a property of `data`: a TypeError when data is null, undefined
\* when data is a primitive or an array, the property of an object.
GetThrows(data) == data.kind = "null"

Get(data, key) == IF data.kind = "object" THEN data[key] ELSE Undefined

\* new Response(JSON.stringify(obj), {status, headers: {'Content-Type': ...}})
\* The body is the JSON text, as its <<key, type, value>> members in order.
NoResponse == [status |-> 0, contentType |-> "", body |-> <<>>]

\* A Response built without the headers option
JsonResponseNoHeaders(members, status) ==
    [status |-> status, contentType |-> "text/plain;charset=UTF-8", body |-> members]

JsonResponse(members, status) ==
    [status |-> status, contentType |-> "application/json", body |-> members]

ErrorBody(text) == << <<"error", "string", text>> >>

SuccessBody ==
    << <<"success", "boolean", "true">>,
       <<"message", "string",
         "Thank you for your interest! We will get back to you soon.">> >>

\* A console line: console.log('Contact form submission:', {email, message,
\* timestamp}) or console.error('Contact form error:', error).  The
\* timestamp is the wall clock and is left out.
LogLine(email, message) == [level |-> "log", email |-> email, message |-> message]

ErrorLine == [level |-> "error", email |-> Undefined, message |-> Undefined]

\* a ?? b
OrNullish(a, b) == IF a.type \in {"undefined", "null"} THEN b ELSE a

\* a || b
Or(a, b) == IF ToBoolean(a) THEN a ELSE b

Outcome(resp, lines, exc) == [response |-> resp, console |-> lines, threw |-> exc]

\* A catch block that answers with the status of a validation error
CatchAs400 == Outcome(JsonResponse(ErrorBody("Internal server error"), 400),
                      <<ErrorLine>>, TRUE)

\* The catch block
Catch == Outcome(JsonResponse(ErrorBody("Internal server error"), 500),
                 <<ErrorLine>>, TRUE)

RequiredReply == JsonResponse(ErrorBody("Email address is required"), 400)

InvalidReply == JsonResponse(ErrorBody("Please enter a valid email address"), 400)

SuccessReply == JsonResponse(SuccessBody, 200)

\* The handler with the message required as well as the email
POSTMessageRequired(body) ==
    IF JsonRejects(body) THEN Catch
    ELSE IF GetThrows(body) THEN Catch
    ELSE IF ~ToBoolean(Get(body, "email")) \/ ~ToBoolean(Get(body, "message"))
        THEN Outcome(RequiredReply, <<>>, FALSE)
    ELSE IF ToStringThrows(Get(body, "email")) THEN Catch
    ELSE IF ~emailRegexTest(Get(body, "email"))
        THEN Outcome(InvalidReply, <<>>, FALSE)
    ELSE Outcome(SuccessReply,
                 << LogLine(Get(body, "email"),
                            Or(Get(body, "message"), JsString(NoMessageProvided))) >>,
                 FALSE)

\* The handler, from the request body to the returned Response, the console
\* lines written and whether an exception was raised.
POST(body) ==
    IF JsonRejects(body) THEN Catch
    ELSE IF GetThrows(body) THEN Catch
    ELSE IF ~ToBoolean(Get(body, "email"))
        THEN Outcome(RequiredReply, <<>>, FALSE)
    ELSE IF ToStringThrows(Get(body, "email")) THEN Catch
    ELSE IF ~emailRegexTest(Get(body, "email"))
        THEN Outcome(InvalidReply, <<>>, FALSE)
    ELSE Outcome(SuccessReply,
                 << LogLine(Get(body, "email"),
                            Or(Get(body, "message"), JsString(NoMessageProvided))) >>,
                 FALSE)

----------------------------------------------------------------------------
(* The effects of the handler other than its response and console lines.   *)
(* The HubSpot request is commented out, so no path makes a request or     *)
(* reads an environment variable.                                          *)

\* The handler with the HubSpot integration switched on
OutboundHubSpot(body) ==
    IF POST(body).response.status = 200
        THEN << [url |-> "https://api.hubapi.com/contacts/v1/contact/",
                 key |-> "HUBSPOT_API_KEY"] >>
        ELSE <<>>

Outbound(body) == <<>>

EnvRead(body) == {}

----------------------------------------------------------------------------
(* Concurrent invocations of the handler.  An invocation runs up to        *)
(* `await request.json()`, and the rest of the handler runs when the body  *)
(* has been read; the console is the only thing invocations share.         *)

MaxConcurrent == 2  \* invocations in progress at the same time

Slots == 1..MaxConcurrent

FreeSlot == [pc |-> "free", body |-> NoRequest, response |-> NoResponse]

ConcurrentInit ==
    /\ handlers = [i \in Slots |-> FreeSlot]
    /\ trace = <<>>

----------------------------------------------------------------------------
(* The blog collection schema (zod).  A front-matter value is described by *)
(* its type, its text when it is a string, and the types of its elements   *)
(* when it is an array.                                                    *)

MaxTags == 2        \* longest tags array enumerated

Fm(t, s, it) == [type |-> t, str |-> s, items |-> it]

FmAbsent == Fm("undefined", "", <<>>)

FmString(s) == Fm("string", s, <<>>)

FmOther(t) == Fm(t, "", <<>>)

FmArray(it) == Fm("array", "", it)

\* z.string()
ZString(v) == v.type = "string"

\* z.array(z.string())
ZArrayOfString(v) ==
    /\ v.type = "array"
    /\ \A k \in 1..Len(v.items) : v.items[k] = "string"

\* The schema with tags required
blogSchemaTagsRequired ==
    << [key |-> "title",       type |-> "string", optional |-> FALSE],
       [key |-> "description", type |-> "string", optional |-> FALSE],
       [key |-> "date",        type |-> "string", optional |-> FALSE],
       [key |-> "category",    type |-> "string", optional |-> FALSE],
       [key |-> "readTime",    type |-> "string", optional |-> FALSE],
       [key |-> "tags",        type |-> "arrayOfString", optional |-> FALSE],
       [key |-> "author",      type |-> "string", optional |-> TRUE] >>

\* z.object({...})
blogSchema ==
    << [key |-> "title",       type |-> "string", optional |-> FALSE],
       [key |-> "description", type |-> "string", optional |-> FALSE],
       [key |-> "date",        type |-> "string", optional |-> FALSE],
       [key |-> "category",    type |-> "string", optional |-> FALSE],
       [key |-> "readTime",    type |-> "string", optional |-> FALSE],
       [key |-> "tags",        type |-> "arrayOfString", optional |-> TRUE],
       [key |-> "author",      type |-> "string", optional |-> TRUE] >>

\* One member of the object schema; .optional() lets undefined through
ZField(f, v) ==
    IF f.optional /\ v.type = "undefined" THEN TRUE
    ELSE IF f.type = "string" THEN ZString(v)
    ELSE ZArrayOfString(v)

\* Parsing an object with the schema; unknown keys are stripped, not refused
SafeParse(schema, data) ==
    \A k \in 1..Len(schema) : ZField(schema[k], data[schema[k].key])

TagsValues ==
    {FmAbsent, FmOther("null"), FmString("LLM")}
    \cup {FmArray(it) :
            it \in UNION {[1..k -> {"string", "number"}] : k \in 0..MaxTags}}

Frontmatters ==
    [ title       : {FmAbsent, FmOther("null"), FmString("Your Post Title"), FmOther("number")},
      description : {FmAbsent, FmString("Post description"), FmOther("number")},
      date        : {FmAbsent, FmString("2024-03-15"), FmString("February 25, 2024"),
                     FmString(""), FmOther("date")},
      category    : {FmAbsent, FmString("AI Strategy"), FmOther("boolean")},
      readTime    : {FmAbsent, FmString("8 min read"), FmOther("number")},
      tags        : TagsValues,
      author      : {FmAbsent, FmOther("null"), FmString("Author Name"), FmOther("number")},
      draft       : {FmAbsent, FmOther("boolean")} ]

NoFrontmatter ==
    [ title |-> FmAbsent, description |-> FmAbsent, date |-> FmAbsent,
      category |-> FmAbsent, readTime |-> FmAbsent, tags |-> FmAbsent,
      author |-> FmAbsent, draft |-> FmAbsent ]

BlogInit ==
    /\ frontmatter = NoFrontmatter
    /\ blogResult = "none"

----------------------------------------------------------------------------
(* HeroCarousel.  Time is counted in whole seconds: the advance timer     *)
(* ticks every IntervalDelay seconds, a dot click schedules a resume       *)
(* timeout ResumeDelay seconds later, and a timer whose time has come      *)
(* fires before the clock moves on.                                        *)

MaxPending == 2     \* resume timeouts pending at one time

\* The titles of `services`, in list order
services ==
    << "GenAI & LLM Solutions", "Multi-Agent Applications",
       "MCP Server Development", "LLMOps & MLOps", "Machine Learning & AI",
       "Data Science", "Data Engineering", "Business Analytics",
       "AI Strategy & Roadmapping" >>

\* setInterval(..., 4000)
IntervalDelay == 4

\* setTimeout(..., 5000)
ResumeDelay == 5

\* The dots, one per service: the indices of services.map
Dots == 0..(Len(services) - 1)

\* useState(0), useState(true), and the effect of the first render, which
\* starts the advance timer
CarouselInit ==
    /\ currentIndex = 0
    /\ isPlaying = TRUE
    /\ interval = <<IntervalDelay>>
    /\ timeouts = <<>>
    /\ clicked = <<>>
    /\ sinceClick = ResumeDelay
    /\ carouselEvent = "mount"

\* services[currentIndex]
currentService == services[currentIndex + 1]

\* An updater that steps past the end of the list
AdvanceNoWrap(prev) == prev + 1

\* An updater that wraps one slide early
AdvanceSkipLast(prev) == (prev + 1) % (Len(services) - 1)

\* (prev) => (prev + 1) % services.length
Advance(prev) == (prev + 1) % Len(services)

\* The callback of the advance timer
Tick ==
    /\ Len(interval) > 0
    /\ Head(interval) = 0
    /\ currentIndex' = Advance(currentIndex)
    /\ interval' = <<IntervalDelay>>
    /\ carouselEvent' = "tick"
    /\ UNCHANGED <<isPlaying, timeouts, clicked, sinceClick>>
    /\ UNCHANGED <<endpointVars, formVars, concurrentVars, blogVars>>

\* A dot click whose render leaves the advance timer running
DotClickNoCleanup(index) ==
    /\ Len(timeouts) < MaxPending
    /\ currentIndex' = index
    /\ isPlaying' = FALSE
    /\ timeouts' = Append(timeouts, ResumeDelay)
    /\ clicked' = <<index>>
    /\ sinceClick' = 0
    /\ carouselEvent' = "click"
    /\ UNCHANGED interval
    /\ UNCHANGED <<endpointVars, formVars, concurrentVars, blogVars>>

\* onClick of dot `index`, and the render it causes: isPlaying is false, so
\* the cleanup of the effect clears the advance timer and the effect starts
\* none.
DotClick(index) ==
    /\ Len(timeouts) < MaxPending
    /\ currentIndex' = index
    /\ isPlaying' = FALSE
    /\ interval' = <<>>
    /\ timeouts' = Append(timeouts, ResumeDelay)
    /\ clicked' = <<index>>
    /\ sinceClick' = 0
    /\ carouselEvent' = "click"
    /\ UNCHANGED <<endpointVars, formVars, concurrentVars, blogVars>>

\* The callback of the oldest resume timeout, setIsPlaying(true), and the
\* render it causes: when isPlaying was false the effect starts a new advance
\* timer, when it was true nothing is rendered.
ResumeTimeout ==
    /\ Len(timeouts) > 0
    /\ Head(timeouts) = 0
    /\ timeouts' = Tail(timeouts)
    /\ isPlaying' = TRUE
    /\ interval' = IF isPlaying THEN interval ELSE <<IntervalDelay>>
    /\ carouselEvent' = "resume"
    /\ UNCHANGED <<currentIndex, clicked, sinceClick>>
    /\ UNCHANGED <<endpointVars, formVars, concurrentVars, blogVars>>

\* One second passes with no timer due.
Elapse ==
    /\ \A k \in 1..Len(interval) : interval[k] > 0
    /\ \A k \in 1..Len(timeouts) : timeouts[k] > 0
    /\ interval' = [k \in 1..Len(interval) |-> interval[k] - 1]
    /\ timeouts' = [k \in 1..Len(timeouts) |-> timeouts[k] - 1]
    /\ sinceClick' = IF sinceClick < ResumeDelay THEN sinceClick + 1
                                                 ELSE ResumeDelay
    /\ carouselEvent' = "elapse"
    /\ UNCHANGED <<currentIndex, isPlaying, clicked>>
    /\ UNCHANGED <<endpointVars, formVars, concurrentVars, blogVars>>

----------------------------------------------------------------------------
(* ContactForm *)

\* useState initial values
InitialFormData == [email |-> <<>>, message |-> <<>>]

GenericError == "Something went wrong. Please try again or email us directly."

FormInit ==
    /\ formData = InitialFormData
    /\ isSubmitting = FALSE
    /\ isSubmitted = FALSE
    /\ error = ""
    /\ inflight = <<>>
    /\ requestsSent = 0
    /\ lastEvent = "mount"
    /\ submitEvents = 0
    /\ lastSubmission = InitialFormData

\* Values typed or pasted into the fields
FieldValues ==
    [email   |-> {<<>>, <<"a">>, <<"a", "@", "a">>, Lit_a_at_b_dot_c, <<"a", " ", "@", "a">>},
     message |-> {<<>>, <<"a">>}]

\* The browser's check of <input type="email" required> before it fires the
\* submit event: a non-empty value of the form atext-or-dot+ "@" label
\* ("." label)*, a label being letters, digits and inner hyphens.
IsAlnum(c) == c \notin {"@", ".", " ", "\t", "\n", "-", ","}

IsLabels(d) ==
    /\ Len(d) > 0
    /\ IsAlnum(d[1])
    /\ IsAlnum(d[Len(d)])
    /\ \A k \in 1..Len(d) :
          /\ IsAlnum(d[k]) \/ d[k] \in {".", "-"}
          /\ d[k] = "." => IsAlnum(d[k - 1]) /\ IsAlnum(d[k + 1])

PassesConstraintValidation(value) ==
    /\ Len(value) > 0
    /\ \E i \in 2..(Len(value) - 1) :
          /\ value[i] = "@"
          /\ \A k \in 1..(i - 1) : IsAlnum(value[k]) \/ value[k] \in {".", "-"}
          /\ IsLabels(SubSeq(value, i + 1, Len(value)))

\* A body that leaves the message out
RequestBodyEmailOnly(fd) == Body("object", JsString(fd.email), Undefined, FALSE)

\* JSON.stringify(formData), as request.json() reads it back
RequestBody(fd) == Body("object", JsString(fd.email), JsString(fd.message), FALSE)

\* An updater that does not spread the previous fields: the other field
\* is lost
handleChangeNoSpread(name, value) ==
    /\ ~isSubmitted
    /\ formData' = [InitialFormData EXCEPT ![name] = value]
    /\ lastEvent' = "change"
    /\ UNCHANGED <<isSubmitting, isSubmitted, error, inflight, requestsSent,
                   submitEvents, lastSubmission>>

\* The fields are part of the form view, shown unless isSubmitted.
handleChange(name, value) ==
    /\ ~isSubmitted
    /\ formData' = [formData EXCEPT ![name] = value]
    /\ lastEvent' = "change"
    /\ UNCHANGED <<isSubmitting, isSubmitted, error, inflight, requestsSent,
                   submitEvents, lastSubmission>>

\* A click on the submit button that the browser's check refuses: no submit
\* event is fired and handleSubmit does not run.
SubmitBlocked ==
    /\ ~isSubmitted
    /\ ~isSubmitting
    /\ ~PassesConstraintValidation(formData.email)
    /\ lastEvent' = "blocked"
    /\ UNCHANGED <<formData, isSubmitting, isSubmitted, error, inflight,
                   requestsSent, submitEvents, lastSubmission>>

\* A submit whose button is not disabled while isSubmitting
handleSubmitNotDisabled ==
    /\ ~isSubmitted
    /\ PassesConstraintValidation(formData.email)
    /\ requestsSent < MaxSubmits
    /\ isSubmitting' = TRUE
    /\ error' = ""
    /\ inflight' = Append(inflight, RequestBody(formData))
    /\ requestsSent' = requestsSent + 1
    /\ submitEvents' = submitEvents + 1
    /\ lastSubmission' = formData
    /\ lastEvent' = "submit"
    /\ UNCHANGED <<formData, isSubmitted>>

\* A submit that leaves the previous error text in place
handleSubmitKeepsError ==
    /\ ~isSubmitted
    /\ ~isSubmitting
    /\ PassesConstraintValidation(formData.email)
    /\ requestsSent < MaxSubmits
    /\ isSubmitting' = TRUE
    /\ inflight' = Append(inflight, RequestBody(formData))
    /\ requestsSent' = requestsSent + 1
    /\ submitEvents' = submitEvents + 1
    /\ lastSubmission' = formData
    /\ lastEvent' = "submit"
    /\ UNCHANGED <<formData, isSubmitted, error>>

\* The submit event: the button is disabled while isSubmitting
handleSubmit ==
    /\ ~isSubmitted
    /\ ~isSubmitting
    /\ PassesConstraintValidation(formData.email)
    /\ requestsSent < MaxSubmits
    /\ isSubmitting' = TRUE
    /\ error' = ""
    /\ inflight' = Append(inflight, RequestBody(formData))
    /\ requestsSent' = requestsSent + 1
    /\ submitEvents' = submitEvents + 1
    /\ lastSubmission' = formData
    /\ lastEvent' = "submit"
    /\ UNCHANGED <<formData, isSubmitted>>

\* response.ok taken as "not a server error"
OkBelow500(status) == status >= 200 /\ status <= 499

\* response.ok
Ok(status) == status >= 200 /\ status <= 299

\* A continuation whose throw on a non-ok response is not caught: neither
\* the catch nor the finally block runs
FetchResolvesUncaught(status) ==
    /\ Len(inflight) > 0
    /\ inflight' = Tail(inflight)
    /\ IF Ok(status)
         THEN isSubmitted' = TRUE /\ isSubmitting' = FALSE
         ELSE UNCHANGED <<isSubmitted, isSubmitting>>
    /\ lastEvent' = IF Ok(status) THEN "ok" ELSE "notOk"
    /\ UNCHANGED <<formData, error, requestsSent, submitEvents, lastSubmission>>

\* A continuation that does not look at response.ok
FetchResolvesNoOkCheck(status) ==
    /\ Len(inflight) > 0
    /\ inflight' = Tail(inflight)
    /\ isSubmitted' = TRUE
    /\ isSubmitting' = FALSE
    /\ lastEvent' = IF Ok(status) THEN "ok" ELSE "notOk"
    /\ UNCHANGED <<formData, error, requestsSent, submitEvents, lastSubmission>>

\* handleSubmit after the await: the fetch resolved with a response
FetchResolves(status) ==
    /\ Len(inflight) > 0
    /\ inflight' = Tail(inflight)
    /\ IF Ok(status)
         THEN isSubmitted' = TRUE /\ UNCHANGED error
         ELSE error' = GenericError /\ UNCHANGED isSubmitted
    /\ isSubmitting' = FALSE
    /\ lastEvent' = IF Ok(status) THEN "ok" ELSE "notOk"
    /\ UNCHANGED <<formData, requestsSent, submitEvents, lastSubmission>>

\* A catch block with no finally block after it
FetchRejectsNoFinally ==
    /\ Len(inflight) > 0
    /\ inflight' = Tail(inflight)
    /\ error' = GenericError
    /\ lastEvent' = "networkFailure"
    /\ UNCHANGED <<formData, isSubmitting, isSubmitted, requestsSent,
                   submitEvents, lastSubmission>>

\* handleSubmit after the await: the fetch rejected (network failure)
FetchRejects ==
    /\ Len(inflight) > 0
    /\ inflight' = Tail(inflight)
    /\ error' = GenericError
    /\ isSubmitting' = FALSE
    /\ lastEvent' = "networkFailure"
    /\ UNCHANGED <<formData, isSubmitted, requestsSent, submitEvents, lastSubmission>>

\* A reset that only leaves the thank-you view
ResetClickKeepsFields ==
    /\ isSubmitted
    /\ isSubmitted' = FALSE
    /\ lastEvent' = "reset"
    /\ UNCHANGED <<formData, isSubmitting, error, inflight, requestsSent,
                   submitEvents, lastSubmission>>

\* "Send Another Message", shown while isSubmitted
ResetClick ==
    /\ isSubmitted
    /\ isSubmitted' = FALSE
    /\ formData' = [email |-> <<>>, message |-> <<>>]
    /\ lastEvent' = "reset"
    /\ UNCHANGED <<isSubmitting, error, inflight, requestsSent,
                   submitEvents, lastSubmission>>

Statuses == {200, 400, 500}

InitForm ==
    /\ request = NoRequest
    /\ phase = "idle"
    /\ response = NoResponse
    /\ responsesSent = 0
    /\ threw = FALSE
    /\ console = <<>>
    /\ history = <<>>
    /\ outbound = <<>>
    /\ envRead = {}
    /\ FormInit
    /\ ConcurrentInit
    /\ BlogInit
    /\ CarouselInit

NextForm ==
    \/ \E name \in {"email", "message"} :
          \E value \in FieldValues[name] :
             handleChange(name, value) /\ UNCHANGED <<endpointVars, concurrentVars, blogVars, carouselVars>>
    \/ handleSubmit /\ UNCHANGED <<endpointVars, concurrentVars, blogVars, carouselVars>>
    \/ \E status \in Statuses : FetchResolves(status) /\ UNCHANGED <<endpointVars, concurrentVars, blogVars, carouselVars>>
    \/ FetchRejects /\ UNCHANGED <<endpointVars, concurrentVars, blogVars, carouselVars>>
    \/ ResetClick /\ UNCHANGED <<endpointVars, concurrentVars, blogVars, carouselVars>>
    \/ SubmitBlocked /\ UNCHANGED <<endpointVars, concurrentVars, blogVars, carouselVars>>

SpecForm == InitForm /\ [][NextForm]_vars

\* The fetch of a request in flight settles: it resolves with a response or
\* it rejects.
Settle ==
    \/ \E status \in Statuses :
          FetchResolves(status) /\ UNCHANGED <<endpointVars, concurrentVars, blogVars, carouselVars>>
    \/ FetchRejects /\ UNCHANGED <<endpointVars, concurrentVars, blogVars, carouselVars>>

\* The form when every request eventually gets a response or fails
SpecFormFair == InitForm /\ [][NextForm]_vars /\ WF_vars(Settle)

----------------------------------------------------------------------------
(* The endpoint as a state machine *)

\* The platform invokes the handler with a request.
Receive(b) ==
    /\ phase \in {"idle", "answered"}
    /\ Len(history) < MaxHistory
    /\ request' = b
    /\ phase' = "handling"
    /\ response' = NoResponse
    /\ responsesSent' = 0
    /\ threw' = FALSE
    /\ console' = <<>>
    /\ UNCHANGED <<history, outbound, envRead>>
    /\ UNCHANGED <<formVars, concurrentVars, blogVars, carouselVars>>

\* A handler that remembers the submissions it accepted and refuses repeats
HandleDeduplicating ==
    /\ phase = "handling"
    /\ response' =
          IF \E k \in 1..Len(history) :
                history[k][1] = request /\ history[k][2].status = 200
            THEN JsonResponse(ErrorBody("Already submitted"), 400)
            ELSE POST(request).response
    /\ console' = console \o POST(request).console
    /\ threw' = POST(request).threw
    /\ responsesSent' = responsesSent + 1
    /\ phase' = "answered"
    /\ history' = Append(history, <<request, response'>>)
    /\ outbound' = outbound \o Outbound(request)
    /\ envRead' = envRead \cup EnvRead(request)
    /\ UNCHANGED request
    /\ UNCHANGED <<formVars, concurrentVars, blogVars, carouselVars>>

\* The handler runs to its return statement.
Handle ==
    /\ phase = "handling"
    /\ response' = POST(request).response
    /\ console' = console \o POST(request).console
    /\ threw' = POST(request).threw
    /\ responsesSent' = responsesSent + 1
    /\ phase' = "answered"
    /\ history' = Append(history, <<request, POST(request).response>>)
    /\ outbound' = outbound \o Outbound(request)
    /\ envRead' = envRead \cup EnvRead(request)
    /\ UNCHANGED request
    /\ UNCHANGED <<formVars, concurrentVars, blogVars, carouselVars>>

\* A few bodies, one of each kind of outcome, for runs of several requests
RepeatBodies ==
    { Body("invalid", Undefined, Undefined, FALSE),
      Body("null", Undefined, Undefined, FALSE),
      Body("object", Undefined, Undefined, FALSE),
      Body("object", JsString(<<>>), JsString(<<"a">>), FALSE),
      Body("object", JsString(<<"a", "@", "a">>), Undefined, FALSE),
      Body("object", JsString(Lit_a_at_b_dot_c), Undefined, FALSE),
      Body("object", JsString(Lit_a_at_b_dot_c), JsString(<<"a">>), FALSE),
      Body("object", JsArray(<<Lit_a_at_b_dot_c>>), Undefined, FALSE),
      Body("object", JsObject({"toString"}), Undefined, FALSE) }

\* One request, drawn from every body enumerated
Init ==
    /\ request \in Bodies
    /\ phase = "handling"
    /\ response = NoResponse
    /\ responsesSent = 0
    /\ threw = FALSE
    /\ console = <<>>
    /\ history = <<>>
    /\ outbound = <<>>
    /\ envRead = {}
    /\ FormInit
    /\ ConcurrentInit
    /\ BlogInit
    /\ CarouselInit

Next == Handle

Spec == Init /\ [][Next]_vars

\* Several requests, one after the other
InitRepeat ==
    /\ request = NoRequest
    /\ phase = "idle"
    /\ response = NoResponse
    /\ responsesSent = 0
    /\ threw = FALSE
    /\ console = <<>>
    /\ history = <<>>
    /\ outbound = <<>>
    /\ envRead = {}
    /\ FormInit
    /\ ConcurrentInit
    /\ BlogInit
    /\ CarouselInit

NextRepeat == (\E b \in RepeatBodies : Receive(b)) \/ Handle

SpecRepeat == InitRepeat /\ [][NextRepeat]_vars

----------------------------------------------------------------------------
(* The form and the endpoint together: the request of a fetch reaches the  *)
(* endpoint, is handled, and the response settles the fetch; the request   *)
(* or the response can be lost, which rejects the fetch.                   *)

ServerReceive ==
    /\ phase = "idle"
    /\ Len(inflight) > 0
    /\ Receive(Head(inflight))

Deliver ==
    /\ phase = "answered"
    /\ FetchResolves(response.status)
    /\ phase' = "idle"
    /\ UNCHANGED <<request, response, responsesSent, threw, console, history,
                   outbound, envRead>>
    /\ UNCHANGED <<concurrentVars, blogVars, carouselVars>>

NetworkFails ==
    /\ phase \in {"idle", "answered"}
    /\ FetchRejects
    /\ phase' = "idle"
    /\ UNCHANGED <<request, response, responsesSent, threw, console, history,
                   outbound, envRead>>
    /\ UNCHANGED <<concurrentVars, blogVars, carouselVars>>

NextComposed ==
    \/ \E name \in {"email", "message"} :
          \E value \in FieldValues[name] :
             handleChange(name, value) /\ UNCHANGED <<endpointVars, concurrentVars, blogVars, carouselVars>>
    \/ handleSubmit /\ UNCHANGED <<endpointVars, concurrentVars, blogVars, carouselVars>>
    \/ SubmitBlocked /\ UNCHANGED <<endpointVars, concurrentVars, blogVars, carouselVars>>
    \/ ResetClick /\ UNCHANGED <<endpointVars, concurrentVars, blogVars, carouselVars>>
    \/ ServerReceive
    \/ Handle
    \/ Deliver
    \/ NetworkFails

SpecComposed == InitForm /\ [][NextComposed]_vars

----------------------------------------------------------------------------
(* Concurrent invocations *)

\* The platform invokes the handler, which runs up to its await.
Invoke(i, b) ==
    /\ handlers[i].pc = "free"
    /\ handlers' = [handlers EXCEPT ![i] = [pc |-> "awaiting", body |-> b,
                                            response |-> NoResponse]]
    /\ trace' = Append(trace, <<"invoke", i>>)
    /\ UNCHANGED <<endpointVars, formVars, blogVars, carouselVars>>

\* The slot of the invocation started last
LastInvoked ==
    LET ks == {k \in 1..Len(trace) : trace[k][1] = "invoke"}
    IN  trace[CHOOSE k \in ks : \A j \in ks : j <= k][2]

\* A handler that keeps the parsed body in a variable of the module, which
\* a later invocation overwrites
ResumeSharedData(i) ==
    /\ handlers[i].pc = "awaiting"
    /\ handlers' = [handlers EXCEPT
                       ![i].pc = "done",
                       ![i].response = POST(handlers[LastInvoked].body).response]
    /\ console' = console \o POST(handlers[LastInvoked].body).console
    /\ trace' = Append(trace, <<"resume", i>>)
    /\ UNCHANGED <<request, phase, response, responsesSent, threw, history,
                   outbound, envRead>>
    /\ UNCHANGED <<formVars, blogVars, carouselVars>>

\* The body has been read (or could not be): the rest of the handler runs
\* to its return statement without interruption.
Resume(i) ==
    /\ handlers[i].pc = "awaiting"
    /\ handlers' = [handlers EXCEPT
                       ![i].pc = "done",
                       ![i].response = POST(handlers[i].body).response]
    /\ console' = console \o POST(handlers[i].body).console
    /\ trace' = Append(trace, <<"resume", i>>)
    /\ UNCHANGED <<request, phase, response, responsesSent, threw, history,
                   outbound, envRead>>
    /\ UNCHANGED <<formVars, blogVars, carouselVars>>

NextConcurrent ==
    \/ \E i \in Slots : \E b \in RepeatBodies : Invoke(i, b)
    \/ \E i \in Slots : Resume(i)

SpecConcurrent == InitRepeat /\ [][NextConcurrent]_vars

----------------------------------------------------------------------------
(* Validation of a blog entry *)

ValidateEntry ==
    /\ blogResult = "pending"
    /\ blogResult' = IF SafeParse(blogSchema, frontmatter) THEN "accepted"
                                                            ELSE "rejected"
    /\ UNCHANGED frontmatter
    /\ UNCHANGED <<endpointVars, formVars, concurrentVars, carouselVars>>

InitBlog ==
    /\ request = NoRequest
    /\ phase = "idle"
    /\ response = NoResponse
    /\ responsesSent = 0
    /\ threw = FALSE
    /\ console = <<>>
    /\ history = <<>>
    /\ outbound = <<>>
    /\ envRead = {}
    /\ FormInit
    /\ ConcurrentInit
    /\ frontmatter \in Frontmatters
    /\ blogResult = "pending"
    /\ CarouselInit

NextBlog == ValidateEntry

SpecBlog == InitBlog /\ [][NextBlog]_vars

----------------------------------------------------------------------------
(* The carousel *)

NextCarousel ==
    \/ \E index \in Dots : DotClick(index)
    \/ Tick
    \/ ResumeTimeout
    \/ Elapse

SpecCarousel == InitForm /\ [][NextCarousel]_vars

----------------------------------------------------------------------------
(* Vocabulary of the properties *)

Answered == phase = "answered"

\* The body parsed as JSON (to any JSON value)
ParsedAsJson(b) == b.kind \notin {"invalid", "none"}

\* The shape local-part "@" domain "." tld, stated on the characters: no
\* whitespace, exactly one "@", something before it, and after it a "."
\* with a character on each side.
HasEmailShape(s) ==
    /\ \A k \in 1..Len(s) : ~IsSpace(s[k])
    /\ Cardinality({k \in 1..Len(s) : s[k] = "@"}) = 1
    /\ \E i \in 2..Len(s) :
          /\ s[i] = "@"
          /\ \E j \in (i + 2)..(Len(s) - 1) : s[j] = "."

EmailIsString(b) == b.kind = "object" /\ b.email.type = "string"

HasMember(resp, key, type) ==
    \E k \in 1..Len(resp.body) : resp.body[k][1] = key /\ resp.body[k][2] = type

HasSuccessTrue(resp) ==
    \E k \in 1..Len(resp.body) : resp.body[k] = <<"success", "boolean", "true">>

HasSuccess(resp) == \E k \in 1..Len(resp.body) : resp.body[k][1] = "success"

HasError(resp) == HasMember(resp, "error", "string")

----------------------------------------------------------------------------
(* Properties of POST /api/contact *)

\* C1: a request whose body parses as JSON and carries no email value (the
\* email is missing, null or the empty string) is answered 400 with an
\* `error` string and no `success` member.
C1_NoEmailIs400 ==
    (/\ Answered
     /\ ParsedAsJson(request)
     /\ \/ request.email.type \in {"undefined", "null"}
        \/ request.email = JsString(<<>>))
    => /\ response.status = 400
       /\ HasError(response)
       /\ ~HasSuccess(response)

\* C2: a request whose email is a string without the shape
\* local-part "@" domain "." tld is answered 400, never 200.
C2_MalformedEmailIs400 ==
    (Answered /\ EmailIsString(request) /\ ~HasEmailShape(request.email.str))
    => response.status = 400

C2_Witness ==
    /\ Answered
    /\ EmailIsString(request)
    /\ request.email.str = <<"a", "@", "a">>
    /\ response.status = 400

\* C3: a request whose email is a non-empty string of that shape, with or
\* without a message, is answered 200 with success = true and an
\* acknowledgement message string.
C3_WellFormedEmailIs200 ==
    (/\ Answered
     /\ EmailIsString(request)
     /\ Len(request.email.str) > 0
     /\ HasEmailShape(request.email.str))
    => /\ response.status = 200
       /\ HasSuccessTrue(response)
       /\ HasMember(response, "message", "string")

C3_Witness ==
    /\ Answered
    /\ EmailIsString(request)
    /\ request.email.str = <<".", "@", "a", ".", "a">>
    /\ request.message = Undefined
    /\ response.status = 200

\* C4: 200 is answered only to a request whose email is a non-empty string
\* of the shape; any other JSON value as email is never answered 200.
C4_OnlyStringEmailIs200 ==
    (Answered /\ response.status = 200)
    => /\ EmailIsString(request)
       /\ Len(request.email.str) > 0
       /\ HasEmailShape(request.email.str)

\* C5: handling that raises an exception (a body that is not JSON included)
\* is answered 500 {"error": "Internal server error"}, and 500 is answered
\* in no other case.
C5_ExceptionIs500 ==
    Answered
    => /\ request.kind = "invalid" => threw
       /\ threw <=> response.status = 500
       /\ threw => /\ responsesSent = 1
                   /\ response.body = << <<"error", "string", "Internal server error">> >>

C5_Witness ==
    /\ Answered
    /\ request.kind = "invalid"
    /\ threw
    /\ response.status = 500

\* C6: every request gets exactly one response, with status 200, 400 or
\* 500 and JSON content type, whose body has success = true exactly when
\* the status is 200 and an `error` string exactly when it is 400 or 500.
C6_TaggedResponse ==
    /\ responsesSent <= 1
    /\ Answered
       => /\ responsesSent = 1
          /\ response.status \in {200, 400, 500}
          /\ response.contentType = "application/json"
          /\ HasSuccessTrue(response) <=> response.status = 200
          /\ HasSuccess(response) => HasSuccessTrue(response)
          /\ HasError(response) <=> response.status \in {400, 500}
          /\ ~(HasSuccess(response) /\ HasError(response))

C6_Witness ==
    /\ Answered
    /\ response.status = 400
    /\ HasError(response)
    /\ responsesSent = 1

\* C7: the message never influences the response: a request that differs
\* from the handled one only in its message gets the same status and body;
\* an accepted message is logged as it was sent.
C7_MessageIgnored ==
    (Answered /\ request.kind = "object")
    => /\ \A m \in MessageValues :
             POST([request EXCEPT !.message = m]).response = response
       /\ (response.status = 200 /\ ToBoolean(request.message))
             => console[1].message = request.message

C7_Witness ==
    /\ Answered
    /\ request.message = JsString(<<"a", " ", "@", ".">>)
    /\ response.status = 200
    /\ console[1].message = JsString(<<"a", " ", "@", ".">>)

\* C8: the endpoint keeps no state between requests: two requests of a run
\* with the same body get the same response, whatever was handled between
\* them, and a valid payload is answered 200 every time.
C8_Stateless ==
    \A i, j \in 1..Len(history) :
        /\ history[i][1] = history[j][1] => history[i][2] = history[j][2]
        /\ (EmailIsString(history[i][1]) /\ HasEmailShape(history[i][1].email.str))
              => history[i][2].status = 200

C8_Witness ==
    /\ Len(history) = 3
    /\ history[1][1] = history[3][1]
    /\ history[1][1] # history[2][1]
    /\ history[1][2].status = 200
    /\ history[3][2].status = 200

----------------------------------------------------------------------------
(* Properties of ContactForm *)

FormState ==
    CASE ~isSubmitting /\ ~isSubmitted /\ error = "" -> "idle"
      [] isSubmitting /\ ~isSubmitted /\ error = ""  -> "submitting"
      [] ~isSubmitting /\ isSubmitted /\ error = ""  -> "submitted"
      [] ~isSubmitting /\ ~isSubmitted /\ error # "" -> "error"
      [] OTHER                                       -> "other"

\* C9: the form is always idle, submitting, submitted or error, and changes
\* state only by: idle or error --submit--> submitting; submitting --ok
\* response--> submitted; submitting --non-ok response or network
\* failure--> error; submitted --reset--> idle.  No request is issued from
\* submitted or submitting.
C9_Transitions ==
    [][ /\ FormState \in {"idle", "submitting", "submitted", "error"}
        /\ FormState' \in {"idle", "submitting", "submitted", "error"}
        /\ FormState' # FormState =>
              <<FormState, lastEvent', FormState'>> \in
                  { <<"idle", "submit", "submitting">>,
                    <<"error", "submit", "submitting">>,
                    <<"submitting", "ok", "submitted">>,
                    <<"submitting", "notOk", "error">>,
                    <<"submitting", "networkFailure", "error">>,
                    <<"submitted", "reset", "idle">> }
        /\ requestsSent' # requestsSent => FormState \in {"idle", "error"}
      ]_vars

C9_Witness ==
    /\ FormState = "idle"
    /\ lastEvent = "reset"
    /\ requestsSent = 2

\* C10: after a successful submission, the reset action leaves the form as
\* a freshly mounted one: both fields empty, not submitting, not submitted,
\* no error text.
C10_ResetIsFresh ==
    lastEvent = "reset"
    => /\ formData.email = <<>>
       /\ formData.message = <<>>
       /\ ~isSubmitting
       /\ ~isSubmitted
       /\ error = ""

C10_Witness ==
    /\ lastEvent = "reset"
    /\ requestsSent >= 1
    /\ formData = [email |-> <<>>, message |-> <<>>]
    /\ ~isSubmitted

\* C11: a submission that gets a non-ok response, or whose request fails,
\* ends in the error state: the generic message is shown, isSubmitting and
\* isSubmitted are false, the fields keep their values and nothing is sent
\* again.
C11_FailureIsError ==
    [][ (Len(inflight') < Len(inflight) /\ lastEvent' \in {"notOk", "networkFailure"})
        => /\ error' = "Something went wrong. Please try again or email us directly."
           /\ ~isSubmitting'
           /\ ~isSubmitted'
           /\ formData' = formData
           /\ requestsSent' = requestsSent
           /\ inflight' = <<>>
      ]_vars

C11_Witness ==
    /\ lastEvent = "networkFailure"
    /\ error = "Something went wrong. Please try again or email us directly."
    /\ formData.email = <<"a", "@", "a">>
    /\ formData.message = <<"a">>
    /\ ~isSubmitting
    /\ inflight = <<>>

\* C12: every submit event issues exactly one POST whose body is the email
\* and message held by the fields at that moment; the number of requests
\* sent equals the number of submit events, and a request leaves the set
\* of requests in flight only by being settled.
C12_OneRequestPerSubmit ==
    [][ /\ requestsSent' = submitEvents'
        /\ submitEvents' # submitEvents
              => /\ requestsSent' = requestsSent + 1
                 /\ inflight' = Append(inflight,
                        Body("object", JsString(formData.email),
                             JsString(formData.message), FALSE))
        /\ Len(inflight') < Len(inflight)
              => lastEvent' \in {"ok", "notOk", "networkFailure"}
      ]_vars

C12_Witness ==
    /\ submitEvents = 2
    /\ requestsSent = 2
    /\ Len(inflight) = 1
    /\ inflight[1].message = JsString(<<"a">>)

\* C13 as claimed: whatever is in the email field when the submit button is
\* used, the endpoint alone decides: the form ends in submitted when the
\* email has the endpoint's shape and in error when it is empty or has not.
C13_EndpointAloneDecides ==
    /\ lastEvent = "blocked"
          => IF HasEmailShape(formData.email) THEN FormState = "submitted"
                                              ELSE FormState = "error"
    /\ lastEvent \in {"ok", "notOk"}
          => IF HasEmailShape(lastSubmission.email) THEN FormState = "submitted"
                                                    ELSE FormState = "error"

\* C13, amended: a submit event whose request is answered by the endpoint
\* ends in submitted when the submitted email has the endpoint's shape, and
\* in error with the fields retained when it has not; the browser's check
\* of the email field refuses the submit of an empty email (and of any value
\* it finds malformed), which sends nothing and leaves the form as it was.
C13_ComposedOutcome ==
    [][ /\ submitEvents' # submitEvents => formData.email # <<>>
        /\ lastEvent' = "blocked"
              => UNCHANGED <<formData, isSubmitting, isSubmitted, error,
                             inflight, requestsSent>>
        /\ (Len(inflight') < Len(inflight) /\ lastEvent' \in {"ok", "notOk"})
              => IF HasEmailShape(lastSubmission.email)
                   THEN FormState' = "submitted"
                   ELSE FormState' = "error" /\ formData' = formData
      ]_vars

C13_Witness ==
    /\ lastEvent = "notOk"
    /\ lastSubmission.email = <<"a", "@", "a">>
    /\ response.status = 400
    /\ FormState = "error"
    /\ formData.email = <<"a", "@", "a">>

\* C14: after a submission answered 400, the inline error text shown by the
\* form is the `error` string of that response.
C14_ShowsEndpointError ==
    (lastEvent = "notOk" /\ response.status = 400)
    => error = response.body[1][3]

\* C15: handling a request makes no outbound call and reads no API key on
\* any path; besides the response, its only effect is at most one console
\* line.
C15_NoOutboundEffects ==
    /\ outbound = <<>>
    /\ envRead = {}
    /\ Answered => /\ Len(console) <= 1
                   /\ response.status = 200 => Len(console) = 1

C15_Witness ==
    /\ Answered
    /\ response.status = 200
    /\ outbound = <<>>
    /\ envRead = {}
    /\ Len(console) = 1

\* C16: under every interleaving of concurrent invocations, each request
\* gets the response it gets when handled alone, and each accepted request
\* has written its own console line.
C16_NoInterference ==
    /\ \A i \in Slots :
          handlers[i].pc = "done"
          => handlers[i].response = POST(handlers[i].body).response
    /\ Cardinality({k \in 1..Len(console) : console[k].level = "log"})
          = Cardinality({i \in Slots : handlers[i].response.status = 200})

C16_Witness ==
    /\ trace = << <<"invoke", 1>>, <<"invoke", 2>>, <<"resume", 2>>, <<"resume", 1>> >>
    /\ handlers[1].response.status = 200
    /\ handlers[2].response.status = 400

C18_PresenceBeforeShape ==
    (Answered /\ ParsedAsJson(request))
    => /\ ~ToBoolean(request.email)
             => response.body = << <<"error", "string", "Email address is required">> >>
       /\ (EmailIsString(request) /\ Len(request.email.str) > 0
              /\ ~HasEmailShape(request.email.str))
             => response.body =
                   << <<"error", "string", "Please enter a valid email address">> >>

\* C19 as claimed: one log entry for a 200 and none for a 400; the entry's
\* message is the request's message, or "No message provided" when the
\* message is absent or empty.
C19_LogEntryAbsentOrEmpty ==
    Answered
    => /\ response.status = 400 => console = <<>>
       /\ response.status = 200
             => /\ Len(console) = 1
                /\ console[1].level = "log"
                /\ console[1].email = request.email
                /\ console[1].message =
                      IF \/ request.message.type \in {"undefined", "null"}
                         \/ request.message = JsString(<<>>)
                        THEN JsString(NoMessageProvided)
                        ELSE request.message

\* C19, amended: the entry's message is "No message provided" when the
\* message is absent or any falsy value (null, "", 0, false), and the
\* request's message otherwise.
C19_LogEntryFalsy ==
    Answered
    => /\ response.status = 400 => console = <<>>
       /\ response.status = 200
             => /\ Len(console) = 1
                /\ console[1].level = "log"
                /\ console[1].email = request.email
                /\ console[1].message =
                      IF \/ request.message.type \in {"undefined", "null"}
                         \/ request.message = JsString(<<>>)
                         \/ request.message = JsNumber(0)
                         \/ request.message = JsBool(FALSE)
                        THEN JsString(NoMessageProvided)
                        ELSE request.message

C19_Witness ==
    /\ Answered
    /\ response.status = 200
    /\ request.message = JsNumber(0)
    /\ console[1].message = JsString(NoMessageProvided)

\* C20: at most one request is in flight, and only while isSubmitting; no
\* submit starts while one is in flight, and the response handled is that
\* of the most recent submit.
C20_OneInFlight ==
    [][ /\ Len(inflight) <= 1
        /\ Len(inflight') <= 1
        /\ isSubmitting <=> Len(inflight) = 1
        /\ submitEvents' # submitEvents => ~isSubmitting /\ inflight = <<>>
        /\ Len(inflight') < Len(inflight)
              => Head(inflight) =
                    Body("object", JsString(lastSubmission.email),
                         JsString(lastSubmission.message), FALSE)
      ]_vars

C20_Witness ==
    /\ Len(inflight) = 1
    /\ isSubmitting
    /\ submitEvents = 2
    /\ lastEvent = "change"
    /\ formData # lastSubmission

\* C21: a non-empty error message implies that the form is neither
\* submitting nor submitted; a submit clears the previous error as the
\* request is sent; and after a success, and after the reset that follows
\* it, no error is shown.
C21_ErrorOnlyWhenIdle ==
    [][ /\ error # "" => ~isSubmitting /\ ~isSubmitted
        /\ error' # "" => ~isSubmitting' /\ ~isSubmitted'
        /\ lastEvent' = "submit"
              => error' = "" /\ Len(inflight') = Len(inflight) + 1
        /\ lastEvent' \in {"ok", "reset"} => error' = ""
      ]_vars

C21_Witness ==
    /\ error # ""
    /\ ~isSubmitting
    /\ ~isSubmitted
    /\ requestsSent = 2
    /\ lastEvent = "change"

\* C22: when every request eventually gets a response or fails, a form
\* that is submitting eventually has isSubmitting false and is submitted or
\* shows the error; and isSubmitting is never true once no request is in
\* flight, whatever the outcome was.
C22_SubmitSettles ==
    /\ isSubmitting ~> (~isSubmitting /\ (isSubmitted \/ error # ""))
    /\ [](Len(inflight) = 0 => ~isSubmitting)

C22_Witness ==
    /\ lastEvent = "notOk"
    /\ requestsSent = 3
    /\ ~isSubmitting
    /\ ~isSubmitted
    /\ error # ""
    /\ inflight = <<>>

\* C23: a field edit changes the named field only: the other field,
\* isSubmitting, isSubmitted and the error text stay as they were; an edit
\* made while a request is in flight leaves the body of that request
\* alone; and when that request fails the fields keep the edited values.
C23_ChangeFrame ==
    [][ /\ lastEvent' = "change"
              => /\ \/ formData'.email = formData.email
                    \/ formData'.message = formData.message
                 /\ isSubmitting' = isSubmitting
                 /\ isSubmitted' = isSubmitted
                 /\ error' = error
                 /\ inflight' = inflight
        /\ lastEvent' \in {"notOk", "networkFailure"} => formData' = formData
      ]_vars

C23_Witness ==
    /\ lastEvent = "notOk"
    /\ formData.email = <<"a">>
    /\ formData.message = <<"a">>
    /\ lastSubmission = [email |-> Lit_a_at_b_dot_c, message |-> <<>>]
    /\ error # ""

\* C24: after a dot click the slide shown is the clicked one and auto-play
\* is paused; auto-play stays paused until 5 seconds after that click,
\* whatever earlier clicks there were, and is on again once those 5 seconds
\* are over and the timeouts due have fired.
C24_PauseLastsFiveSeconds ==
    /\ carouselEvent = "click" => currentIndex = clicked[1] /\ ~isPlaying
    /\ sinceClick < ResumeDelay => ~isPlaying
    /\ ( /\ clicked # <<>>
         /\ sinceClick = ResumeDelay
         /\ \A k \in 1..Len(timeouts) : timeouts[k] > 0 ) => isPlaying

\* C25: while auto-play is on, a tick of the advance timer moves the slide
\* shown from index i to (i + 1) mod 9, the last slide being followed by
\* the first, and changes nothing else of the component's state.
C25_TickAdvances ==
    [][ (carouselEvent' = "tick" /\ isPlaying)
        => /\ currentIndex' = (currentIndex + 1) % 9
           /\ currentIndex = 8 => currentIndex' = 0
           /\ currentIndex < 8 => currentIndex' = currentIndex + 1
           /\ isPlaying' = isPlaying
           /\ timeouts' = timeouts
           /\ clicked' = clicked
      ]_vars

C25_Witness ==
    /\ carouselEvent = "tick"
    /\ isPlaying
    /\ currentIndex = 0

\* C26: after any sequence of ticks, dot clicks and resume timeouts,
\* currentIndex is an integer in 0..8 and the current service is defined.
C26_IndexInRange ==
    /\ currentIndex \in 0..8
    /\ currentIndex + 1 \in DOMAIN services

C26_Witness ==
    /\ carouselEvent = "resume"
    /\ currentIndex = 8
    /\ clicked = <<8>>
    /\ isPlaying

\* C27: while auto-play is paused there is no advance timer, the timer
\* that ran before the pause having been cleared by the click, and the
\* slide shown changes only by a dot click.
C27_PausedOnlyClicks ==
    [][ /\ ~isPlaying => interval = <<>>
        /\ (isPlaying /\ ~isPlaying') => interval' = <<>>
        /\ (~isPlaying /\ currentIndex' # currentIndex)
              => carouselEvent' = "click"
      ]_vars

C27_Witness ==
    /\ ~isPlaying
    /\ sinceClick = 4
    /\ Len(timeouts) = 1
    /\ currentIndex = clicked[1]

====
